---- MODULE Spec2Model ----
(***************************************************************************)
(* Model of the Temperature and Time blocks of i3status-rust               *)
(* (src/blocks/temperature.rs, src/blocks/time.rs).                        *)
(*                                                                         *)
(* A block is a record holding the fields of its struct.  Floating point   *)
(* sensor values are kept in fixed point, in half degrees (raw = 2 * v),   *)
(* so that the fractional readings between -101 and -100 and between 150   *)
(* and 151 exist in the model.  Strings are TLA+ strings.                  *)
(***************************************************************************)
EXTENDS Integers, Sequences, FiniteSets, TLC

VARIABLES
    temperature,   \* the Temperature block (struct Temperature), or NoBlock
    time,          \* the Time block (struct Time), or NoBlock
    sensors,       \* environment: what running `sensors -j` yields right now
    now,           \* environment: the current instant, in hours since the epoch (UTC)
    ret,           \* what the last operation returned
    spawned,       \* the external commands the last operation ran or tried to launch
    temperatures,  \* the local Vec `temperatures` of the last Temperature::update
    clickHist,     \* the Temperature block as it was before each of the last
                   \* (at most two) matching left clicks since the last update
    lastGood,      \* `temperatures` of the last Temperature::update that rendered
                   \* an aggregate, <<>> before the first such update
    blocks,        \* the blocks registered with a bar of any number of blocks, in
                   \* registration order (<<>> where there is no such bar)
    delivery,      \* the last click event delivered to `blocks`, the blocks before
                   \* it and what each block's click returned
    children       \* the commands that clicks have launched and that still run

vars ==
    <<temperature, time, sensors, now, ret, spawned, temperatures, clickHist, lastGood,
      blocks, delivery, children>>

----------------------------------------------------------------------------
(* Bounds of the model *)

\* most temp*_input sub-fields of the single sensor input of a value-rich output
MaxReadings == 3
\* the same, for the outputs a block polled many times is given
MaxPollReadings == 2
\* most sensor inputs (over all chips) of a structure-rich output
MaxInputs == 2
\* the last instant the clock reaches
MaxNow == 2
\* most commands launched by clicks that run at one time: the launch of one
\* more fails
MaxChildren == 2

----------------------------------------------------------------------------
(* Option<T> *)

None == [some |-> FALSE, v |-> ""]
Some(x) == [some |-> TRUE, v |-> x]

NoBlock == [live |-> FALSE]

----------------------------------------------------------------------------
(* util::FormatTemplate *)

RECURSIVE FindClose(_, _)
\* index of the first "}" of s at or after i, 0 when there is none
FindClose(s, i) ==
    IF i > Len(s) THEN 0
    ELSE IF SubSeq(s, i, i) = "}" THEN i
    ELSE FindClose(s, i + 1)

RECURSIVE Tokens(_, _, _)
\* the tokens of s from index i on, lit being the literal text gathered so far
Tokens(s, i, lit) ==
    LET flush == IF lit = "" THEN <<>> ELSE <<[var |-> FALSE, s |-> lit]>>
    IN  IF i > Len(s) THEN [ok |-> TRUE, tokens |-> flush]
        ELSE IF SubSeq(s, i, i) = "{"
        THEN LET j == FindClose(s, i)
             IN  IF j = 0 THEN [ok |-> FALSE, tokens |-> <<>>]
                 ELSE LET rest == Tokens(s, j + 1, "")
                      IN  [ok |-> rest.ok,
                           tokens |-> flush \o <<[var |-> TRUE, s |-> SubSeq(s, i, j)]>>
                                            \o rest.tokens]
        ELSE Tokens(s, i + 1, lit \o SubSeq(s, i, i))

\* FormatTemplate::from_string: literal and placeholder tokens, or a parse
\* error for an unterminated placeholder
FromString(s) == Tokens(s, 1, "")

RECURSIVE RenderTokens(_, _)
RenderTokens(tokens, values) ==
    IF tokens = <<>> THEN [ok |-> TRUE, s |-> ""]
    ELSE LET t == Head(tokens)
             rest == RenderTokens(Tail(tokens), values)
         IN  IF t.var /\ t.s \notin DOMAIN values THEN [ok |-> FALSE, s |-> ""]
             ELSE [ok |-> rest.ok,
                   s |-> IF rest.ok
                         THEN (IF t.var THEN ToString(values[t.s]) ELSE t.s) \o rest.s
                         ELSE ""]

\* FormatTemplate::render_static_str: literals verbatim, each placeholder
\* replaced by its value's decimal text; an unknown placeholder is an error
RenderStaticStr(format, values) == RenderTokens(format, values)

----------------------------------------------------------------------------
(* widgets::button::ButtonWidget and widget::{Spacing, State} *)

States == {"Good", "Idle", "Info", "Warning", "Critical"}

\* ButtonWidget::new(config, id): no text yet, Idle, Normal spacing
ButtonWidgetNew(id) ==
    [id |-> id, text |-> "", icon |-> "", state |-> "Idle", spacing |-> "Normal"]

WithIcon(w, name) == [w EXCEPT !.icon = name]
WithText(w, content) == [w EXCEPT !.text = content]
WithSpacing(w, spacing) == [w EXCEPT !.spacing = spacing]
SetText(w, content) == [w EXCEPT !.text = content]
SetState(w, state) == [w EXCEPT !.state = state]
SetSpacing(w, spacing) == [w EXCEPT !.spacing = spacing]

----------------------------------------------------------------------------
(* input::{I3BarEvent, MouseButton} *)

MouseButtons == {"Left", "Right"}

\* the identities blocks are given at construction
Ids == {"id-a", "id-b"}

\* an event names a block, a name no live block has, or nothing
EventNames == {None} \cup {Some(n) : n \in Ids \cup {"id-gone"}}

Events == [name : EventNames, button : MouseButtons]

----------------------------------------------------------------------------
(* The output of the `sensors -j` command *)

\* a JSON number, in half degrees
JNum(raw) == [num |-> TRUE, raw |-> raw]
\* a JSON value that is no number (a label, null)
JStr == [num |-> FALSE, raw |-> 0]

\* -101, -100.5, 18, 42, 61, 150.5 and 151 degrees
RawValues == {-202, -201, 36, 84, 122, 301, 302}

\* a JSON object as the set of its members, one per key
Object(keys, vals) ==
    UNION {{{[name |-> k, val |-> f[k]] : k \in ks} : f \in [ks -> vals]} : ks \in keys}

\* a reading that is no object (the "Adapter" descriptor of a chip)
Adapter == [isMap |-> FALSE, fields |-> {}]
Reading(fields) == [isMap |-> TRUE, fields |-> fields]

ChipNames == {"coretemp-isa-0000", "acpitz-acpi-0"}
InputNames == {"Core 0", "Core 1"}
Slots == ChipNames \X InputNames

\* the chips of an output that has reading r[p] at each slot p = <<chip, input>>
ChipsOf(r) ==
    {[chip |-> c,
      inputs |-> {[name |-> p[2], value |-> r[p]] : p \in {q \in DOMAIN r : q[1] = c}}]
        : c \in {p[1] : p \in DOMAIN r}}

Json(chips) == [kind |-> "json", chips |-> chips]
\* the command could not be launched: its error text is parsed instead
LaunchFailed == [kind |-> "launch_failed", chips |-> {}]
\* the command printed nothing, or something that is no chip -> input -> value map
Malformed == [kind |-> "malformed", chips |-> {}]

TempInputNames == <<"temp1_input", "temp2_input", "temp3_input", "temp4_input">>

\* value-rich outputs: one input of one chip with up to n temp*_input
\* numbers among raws
ValueOutputs(n, raws) ==
    {Json(ChipsOf([p \in {<<"coretemp-isa-0000", "Core 0">>} |-> Reading(fs)])) :
        fs \in Object({{TempInputNames[i] : i \in 1..k} : k \in 0..n},
                      {JNum(raw) : raw \in raws})}

\* a sub-field of each kind: a temperature input, one with the prefix alone,
\* one with the suffix alone
SubFieldNames == {"temp1_input", "temp1_max", "fan1_input"}

\* the objects of up to two of SubFieldNames with 42 degrees or a non-number
\* as values (fan1_input, when there, is a number)
StructureReadings ==
    {Reading({f \in fs : ~(f.name = "fan1_input" /\ ~f.val.num)}) :
        fs \in Object(SUBSET SubFieldNames \ {SubFieldNames}, {JNum(84), JStr})}

\* structure-rich outputs: up to n inputs over the chips, each an Adapter
\* descriptor or one of StructureReadings
StructureOutputs(n) ==
    UNION {{Json(ChipsOf(r)) : r \in [ps -> {Adapter} \cup StructureReadings]}
              : ps \in {qs \in SUBSET Slots : Cardinality(qs) <= n}}

\* out is a reply of the sensors command: a failure, a value-rich output of
\* up to MaxReadings numbers or a structure-rich one of up to MaxInputs inputs
SensorsOutput(out) ==
    \/ out \in {LaunchFailed, Malformed}
    \/ out \in ValueOutputs(MaxReadings, RawValues)
    \/ \E ps \in {qs \in SUBSET Slots : Cardinality(qs) <= MaxInputs} :
          \E r \in [ps -> {Adapter} \cup StructureReadings] : out = Json(ChipsOf(r))

----------------------------------------------------------------------------
(* blocks::temperature *)

default_interval == 5
default_good == 20
default_idle == 45
default_info == 60
default_warning == 80
\* "{average}\u{b0} avg, {max}\u{b0} max": the degree sign is written ^ here, the
\* strings of the model being ASCII
default_format == "{average}^ avg, {max}^ max"

StartsWith(s, prefix) ==
    Len(s) >= Len(prefix) /\ SubSeq(s, 1, Len(prefix)) = prefix

EndsWith(s, suffix) ==
    Len(s) >= Len(suffix) /\ SubSeq(s, Len(s) - Len(suffix) + 1, Len(s)) = suffix

\* whitelist.contains(&input_name)
Contains(whitelist, name) == \E i \in 1..Len(whitelist) : whitelist[i] = name

\* the range check with its bounds included
InRangeInclusive(raw) == raw >= -202 /\ raw <= 302

\* value > -101f64 && value < 151f64
InRange(raw) == raw > -202 /\ raw < 302

\* the fraction dropped downwards
AsI64Floor(raw) == IF raw >= 0 THEN raw \div 2 ELSE -((1 - raw) \div 2)

\* value as i64: the fraction is dropped, toward zero
AsI64(raw) == IF raw >= 0 THEN raw \div 2 ELSE -((-raw) \div 2)

\* from_value keeping the numeric members of an object and dropping the others
FromValueLenient(value) ==
    IF value.isMap
    THEN [ok |-> TRUE,
          values |-> {[name |-> f.name, value |-> f.val.raw] :
                         f \in {g \in value.fields : g.val.num}}]
    ELSE [ok |-> FALSE, values |-> {}]

\* serde_json::from_value::<HashMap<String, f64>>: the value must be an object
\* and every one of its members a number
FromValue(value) ==
    IF value.isMap /\ \A f \in value.fields : f.val.num
    THEN [ok |-> TRUE, values |-> {[name |-> f.name, value |-> f.val.raw] : f \in value.fields}]
    ELSE [ok |-> FALSE, values |-> {}]

RECURSIVE CollectValues(_)
\* for (value_name, value) in values_parsed { ... }
CollectValues(values_parsed) ==
    IF values_parsed = {} THEN <<>>
    ELSE LET e == CHOOSE x \in values_parsed : TRUE
             rest == CollectValues(values_parsed \ {e})
         IN  IF ~StartsWith(e.name, "temp") \/ ~EndsWith(e.name, "input") THEN rest
             ELSE IF InRange(e.value) THEN <<AsI64(e.value)>> \o rest
             ELSE rest

RECURSIVE CollectInputs(_, _)
\* for (input_name, input_values) in inputs { ... }
CollectInputs(inputs, whitelist) ==
    IF inputs = {} THEN <<>>
    ELSE LET i == CHOOSE x \in inputs : TRUE
             rest == CollectInputs(inputs \ {i}, whitelist)
             values_parsed == FromValue(i.value)
         IN  IF whitelist.some /\ ~Contains(whitelist.v, i.name) THEN rest
             ELSE IF ~values_parsed.ok THEN rest
             ELSE CollectValues(values_parsed.values) \o rest

\* the readings of one chip alone
CollectOneChip(parsed, whitelist) ==
    IF parsed = {} THEN <<>>
    ELSE CollectInputs((CHOOSE x \in parsed : TRUE).inputs, whitelist)

RECURSIVE CollectChips(_, _)
\* for (_chip, inputs) in parsed { ... }
CollectChips(parsed, whitelist) ==
    IF parsed = {} THEN <<>>
    ELSE LET c == CHOOSE x \in parsed : TRUE
         IN  CollectInputs(c.inputs, whitelist) \o CollectChips(parsed \ {c}, whitelist)

RECURSIVE Sum(_)
Sum(seq) == IF seq = <<>> THEN 0 ELSE Head(seq) + Sum(Tail(seq))

RECURSIVE Max(_)
Max(seq) ==
    IF Len(seq) = 1 THEN Head(seq)
    ELSE LET m == Max(Tail(seq)) IN IF Head(seq) >= m THEN Head(seq) ELSE m

RECURSIVE Min(_)
Min(seq) ==
    IF Len(seq) = 1 THEN Head(seq)
    ELSE LET m == Min(Tail(seq)) IN IF Head(seq) <= m THEN Head(seq) ELSE m

\* the average by integer division, its fraction dropped
AverageTruncated(seq) == Sum(seq) \div Len(seq)

\* (sum as f64 / len as f64).round() as i64: halves round away from zero
Average(seq) ==
    LET sum == Sum(seq)
        len == Len(seq)
    IN  IF sum >= 0 THEN (2 * sum + len) \div (2 * len)
        ELSE -((2 * (-sum) + len) \div (2 * len))

\* the ladder with a threshold itself counted to the more urgent state
ClassifyStrict(self, max) ==
    IF max < self.maximum_good THEN "Good"
    ELSE IF max < self.maximum_idle THEN "Idle"
    ELSE IF max < self.maximum_info THEN "Info"
    ELSE IF max < self.maximum_warning THEN "Warning"
    ELSE "Critical"

\* match max { m if m <= self.maximum_good => State::Good, ... }
Classify(self, max) ==
    IF max <= self.maximum_good THEN "Good"
    ELSE IF max <= self.maximum_idle THEN "Idle"
    ELSE IF max <= self.maximum_info THEN "Info"
    ELSE IF max <= self.maximum_warning THEN "Warning"
    ELSE "Critical"

\* Temperature::new
TemperatureNew(block_config, id) ==
    LET format == FromString(block_config.format)
    IN  IF ~format.ok THEN [ok |-> FALSE, block |-> NoBlock]
        ELSE [ok |-> TRUE,
              block |->
                [live |-> TRUE,
                 update_interval |-> block_config.interval,
                 text |-> WithSpacing(WithIcon(ButtonWidgetNew(id), "thermometer"),
                                      IF block_config.collapsed THEN "Hidden" ELSE "Normal"),
                 output |-> "",
                 collapsed |-> block_config.collapsed,
                 id |-> id,
                 maximum_good |-> block_config.good,
                 maximum_idle |-> block_config.idle,
                 maximum_info |-> block_config.info,
                 maximum_warning |-> block_config.warning,
                 format |-> format.tokens,
                 chip |-> block_config.chip,
                 inputs |-> block_config.inputs]]

\* the argument vector of the sensors command
SensorsCommand(self) ==
    <<"sensors", "-j">> \o (IF self.chip.some THEN <<self.chip.v>> ELSE <<>>)

Err(blk, op, msg) == [blk |-> blk, op |-> op, kind |-> "Err", interval |-> 0, msg |-> msg]
OkUnit(blk, op) == [blk |-> blk, op |-> op, kind |-> "Ok", interval |-> 0, msg |-> ""]
OkSome(blk, op, interval) ==
    [blk |-> blk, op |-> op, kind |-> "Some", interval |-> interval, msg |-> ""]

\* the text set whether the block is collapsed or not
RenderedAlwaysShown(self, temps, output) ==
    [self EXCEPT !.output = output,
                 !.text = SetState(SetText(self.text, output), Classify(self, Max(temps)))]

\* the output kept only when it is shown
RenderedWhenShown(self, temps, output) ==
    LET state == Classify(self, Max(temps))
    IN  IF self.collapsed THEN [self EXCEPT !.text = SetState(self.text, state)]
        ELSE [self EXCEPT !.output = output,
                          !.text = SetState(SetText(self.text, output), state)]

\* the block after the aggregate of a nonempty `temperatures` is rendered
Rendered(self, temps, output) ==
    LET shown == IF ~self.collapsed THEN SetText(self.text, output) ELSE self.text
    IN  [self EXCEPT !.output = output,
                     !.text = SetState(shown, Classify(self, Max(temps)))]

\* map!("{average}" => avg, "{min}" => min, "{max}" => max)
Values(temps) ==
    [k \in {"{average}", "{min}", "{max}"} |->
        CASE k = "{average}" -> Average(temps)
          [] k = "{min}" -> Min(temps)
          [] k = "{max}" -> Max(temps)]

\* the widget blanked when no reading was collected
AggregateBlank(self, temps) ==
    IF temps # <<>>
    THEN LET output == RenderStaticStr(self.format, Values(temps))
         IN  IF ~output.ok THEN [ok |-> FALSE, block |-> self]
             ELSE [ok |-> TRUE, block |-> Rendered(self, temps, output.s)]
    ELSE [ok |-> TRUE, block |-> [self EXCEPT !.output = "", !.text = SetText(@, "")]]

\* the severity set before the template is rendered
AggregateStateFirst(self, temps) ==
    IF temps # <<>>
    THEN LET output == RenderStaticStr(self.format, Values(temps))
             classified == [self EXCEPT !.text = SetState(@, Classify(self, Max(temps)))]
         IN  IF ~output.ok THEN [ok |-> FALSE, block |-> classified]
             ELSE [ok |-> TRUE, block |-> Rendered(self, temps, output.s)]
    ELSE [ok |-> TRUE, block |-> self]

\* if !temperatures.is_empty() { ... }: the block after it, or the render error
Aggregate(self, temps) ==
    IF temps # <<>>
    THEN LET output == RenderStaticStr(self.format, Values(temps))
         IN  IF ~output.ok THEN [ok |-> FALSE, block |-> self]
             ELSE [ok |-> TRUE, block |-> Rendered(self, temps, output.s)]
    ELSE [ok |-> TRUE, block |-> self]

\* Temperature::update, the sensors command printing `out`.  A reply that does
\* not parse returns the error of line 165; a template that does not render
\* returns the error of render_static_str ("render") through the `?` of line
\* 212, before self.output is assigned.
TemperatureUpdate(out) ==
    /\ temperature.live
    /\ spawned' = <<SensorsCommand(temperature)>>
    /\ clickHist' = <<>>
    /\ UNCHANGED <<time, sensors, now, blocks, delivery, children>>
    /\ IF out.kind # "json"
       THEN /\ ret' = Err("temperature", "update", "sensors output is invalid")
            /\ temperatures' = <<>>
            /\ UNCHANGED <<temperature, lastGood>>
       ELSE LET temps == CollectChips(out.chips, temperature.inputs)
                after == Aggregate(temperature, temps)
            IN  /\ temperatures' = temps
                /\ temperature' = after.block
                /\ lastGood' = IF after.ok /\ temps # <<>> THEN temps ELSE lastGood
                /\ ret' = IF after.ok
                          THEN OkSome("temperature", "update", temperature.update_interval)
                          ELSE Err("temperature", "update", "render")

\* the severity put back to Idle by the click
ToggledToIdle(self) ==
    LET collapsed == ~self.collapsed
    IN  [self EXCEPT !.collapsed = collapsed,
                     !.text = SetState(IF collapsed
                                       THEN SetSpacing(SetText(self.text, ""), "Hidden")
                                       ELSE SetSpacing(SetText(self.text, self.output), "Normal"),
                                       "Idle")]

\* the stored output dropped on collapsing
ToggledForgetful(self) ==
    IF self.collapsed
    THEN [self EXCEPT !.collapsed = FALSE,
                      !.text = SetSpacing(SetText(self.text, self.output), "Normal")]
    ELSE [self EXCEPT !.collapsed = TRUE, !.output = "",
                      !.text = SetSpacing(SetText(self.text, ""), "Hidden")]

\* the block after a matching left click
Toggled(self) ==
    LET collapsed == ~self.collapsed
    IN  [self EXCEPT !.collapsed = collapsed,
                     !.text = IF collapsed
                              THEN SetSpacing(SetText(self.text, ""), "Hidden")
                              ELSE SetSpacing(SetText(self.text, self.output), "Normal")]

\* the name of the event not compared with the identity
MatchesAnyName(self, e) == e.name.some /\ e.button = "Left"

\* the button not looked at
MatchesAnyButton(self, e) == e.name.some /\ e.name.v = self.id

\* the event names this block and its button is the left one
Matches(self, e) == e.name.some /\ e.name.v = self.id /\ e.button = "Left"

\* Temperature::click
TemperatureClick(e) ==
    /\ temperature.live
    /\ temperature' = IF Matches(temperature, e) THEN Toggled(temperature) ELSE temperature
    /\ clickHist' = IF Matches(temperature, e)
                    THEN (IF Len(clickHist) = 2 THEN Tail(clickHist) ELSE clickHist)
                             \o <<temperature>>
                    ELSE clickHist
    /\ ret' = OkUnit("temperature", "click")
    /\ spawned' = <<>>
    /\ UNCHANGED <<time, sensors, now, temperatures, lastGood, blocks, delivery, children>>

----------------------------------------------------------------------------
(* blocks::time *)

time_default_interval == 5
time_default_format == "%a %d/%m %R"

\* the locale names chrono's Locale::try_from accepts (those the model uses)
KnownLocales == {"de_DE", "en_US"}

\* l.as_str().try_into(): the Locale of that name, if there is one
TryIntoLocale(l) == [ok |-> l \in KnownLocales, locale |-> l]

\* hours east of UTC of a chrono_tz zone
UtcOffset(tz) == IF tz = "Asia/Tokyo" THEN 9 ELSE 0

Pad2(n) == IF n < 10 THEN "0" \o ToString(n) ELSE ToString(n)

\* %a: the abbreviated weekday name, 1970-01-01 being a Thursday
WeekdayName(day, locale) ==
    LET names == IF locale.some /\ locale.v = "de_DE"
                 THEN <<"Mo", "Di", "Mi", "Do", "Fr", "Sa", "So">>
                 ELSE <<"Mon", "Tue", "Wed", "Thu", "Fri", "Sat", "Sun">>
    IN  names[((day + 3) % 7) + 1]

RECURSIVE Strftime(_, _, _, _)
\* format / format_localized of the instant `hours` (local hours since the
\* epoch, within January 1970) from index i of the pattern on
Strftime(format, i, hours, locale) ==
    IF i > Len(format) THEN ""
    ELSE IF SubSeq(format, i, i) = "%" /\ i < Len(format)
    THEN LET spec == SubSeq(format, i + 1, i + 1)
             item == CASE spec = "a" -> WeekdayName(hours \div 24, locale)
                       [] spec = "d" -> Pad2((hours \div 24) + 1)
                       [] spec = "m" -> "01"
                       [] spec = "R" -> Pad2(hours % 24) \o ":00"
                       [] OTHER -> "%" \o spec
         IN  item \o Strftime(format, i + 2, hours, locale)
    ELSE SubSeq(format, i, i) \o Strftime(format, i + 1, hours, locale)

\* Utc::now().with_timezone(&tz) or Local::now(), formatted
FormatNow(self, instant, locale) ==
    LET offset == IF self.timezone.some THEN UtcOffset(self.timezone.v)
                  ELSE 1  \* the system's zone (Local), an hour east of UTC
    IN  Strftime(self.format, 1, instant + offset, locale)

\* the widget given an identity of its own, not the block's
TimeNewOwnWidgetId(block_config, id) ==
    [ok |-> TRUE,
     block |->
       [live |-> TRUE,
        id |-> id,
        format |-> block_config.format,
        time |-> WithIcon(WithText(ButtonWidgetNew(id \o "-widget"), ""), "time"),
        update_interval |-> block_config.interval,
        on_click |-> block_config.on_click,
        timezone |-> block_config.timezone,
        locale |-> block_config.locale]]

\* Time::new
TimeNew(block_config, id) ==
    [ok |-> TRUE,
     block |->
       [live |-> TRUE,
        id |-> id,
        format |-> block_config.format,
        time |-> WithIcon(WithText(ButtonWidgetNew(id), ""), "time"),
        update_interval |-> block_config.interval,
        on_click |-> block_config.on_click,
        timezone |-> block_config.timezone,
        locale |-> block_config.locale]]

\* Time::update
TimeUpdate ==
    /\ time.live
    /\ spawned' = <<>>
    /\ UNCHANGED <<temperature, sensors, now, temperatures, clickHist, lastGood, blocks,
                   delivery, children>>
    /\ IF time.locale.some /\ ~TryIntoLocale(time.locale.v).ok
       THEN /\ ret' = Err("time", "update", "invalid locale")
            /\ UNCHANGED time
       ELSE /\ time' = [time EXCEPT !.time = SetText(@, FormatNow(time, now, time.locale))]
            /\ ret' = OkSome("time", "update", time.update_interval)

\* the button not looked at
ClickCommandAnyButton(self, e) ==
    IF e.name.some /\ e.name.v = self.id /\ self.on_click.some
    THEN <<<<"sh", "-c", self.on_click.v>>>>
    ELSE <<>>

\* the command Time::click launches for the event, if any
ClickCommand(self, e) ==
    IF e.name.some /\ e.name.v = self.id /\ e.button = "Left" /\ self.on_click.some
    THEN <<<<"sh", "-c", self.on_click.v>>>>
    ELSE <<>>

\* spawn_child_async can succeed: the system can run one more child
CanLaunch == Len(children) < MaxChildren

\* Time::click, spawn_child_async succeeding or not; a launched command runs
\* on after the click has returned
TimeClick(e, launched) ==
    /\ time.live
    /\ launched => CanLaunch
    /\ spawned' = ClickCommand(time, e)
    /\ children' = IF launched THEN children \o spawned' ELSE children
    /\ ret' = IF spawned' # <<>> /\ ~launched
              THEN Err("time", "click", "could not spawn child")
              ELSE OkUnit("time", "click")
    /\ UNCHANGED <<temperature, time, sensors, now, temperatures, clickHist, lastGood,
                   blocks, delivery>>

\* a launched command ends
ChildExit ==
    /\ children # <<>>
    /\ children' = Tail(children)
    /\ UNCHANGED <<temperature, time, sensors, now, ret, spawned, temperatures, clickHist,
                   lastGood, blocks, delivery>>

\* the clock advances
Tick ==
    /\ now < MaxNow
    /\ now' = now + 1
    /\ UNCHANGED <<temperature, time, sensors, ret, spawned, temperatures, clickHist,
                   lastGood, blocks, delivery, children>>

----------------------------------------------------------------------------
(* Configurations *)

TemperatureConfigs(collapseds, formats, chips, whitelists, thresholds) ==
    {[interval |-> default_interval, collapsed |-> c, good |-> t[1], idle |-> t[2],
      info |-> t[3], warning |-> t[4], format |-> f, chip |-> ch, inputs |-> w]
        : c \in collapseds, f \in formats, ch \in chips, w \in whitelists, t \in thresholds}

DefaultThresholds == <<default_good, default_idle, default_info, default_warning>>

TimeConfigs(formats, on_clicks, timezones, locales) ==
    {[format |-> f, interval |-> time_default_interval, on_click |-> c, timezone |-> tz,
      locale |-> l]
        : f \in formats, c \in on_clicks, tz \in timezones, l \in locales}

\* the reply of the sensors command is not fixed: each poll draws one
Unfixed == [kind |-> "unfixed", chips |-> {}]

\* the bar has started the configured blocks
Started == OkUnit("bar", "new")

\* no click event has been delivered since the last update
NoDelivery == [live |-> FALSE]

\* the bar starts with the Temperature block of block_config (tc) and the Time
\* block of block_config (mc), each left out when its configuration is NoBlock
Start(tc, tid, mc, mid) ==
    LET t == IF tc = NoBlock THEN [ok |-> TRUE, block |-> NoBlock] ELSE TemperatureNew(tc, tid)
        m == IF mc = NoBlock THEN [ok |-> TRUE, block |-> NoBlock] ELSE TimeNew(mc, mid)
    IN  /\ temperature = t.block
        /\ time = m.block
        /\ ret = IF ~t.ok
                 THEN Err("temperature", "new", "Invalid format specified for temperature")
                 ELSE Started
        /\ now = 0
        /\ spawned = <<>>
        /\ temperatures = <<>>
        /\ clickHist = <<>>
        /\ lastGood = <<>>
        /\ blocks = <<>>
        /\ delivery = NoDelivery
        /\ children = <<>>

----------------------------------------------------------------------------
(* SpecCycle: a Temperature block and one fixed reply of the sensors command *)

CycleConfigs ==
    TemperatureConfigs(BOOLEAN, {"{min} {average} {max}"}, {None},
                       {None, Some(<<"Core 0">>)}, {DefaultThresholds})
        \cup TemperatureConfigs({FALSE}, {default_format}, {None}, {None},
                                {DefaultThresholds})

CycleInit ==
    /\ SensorsOutput(sensors)
    /\ \E tc \in CycleConfigs : Start(tc, "id-a", NoBlock, "")

CycleUpdate == TemperatureUpdate(sensors)

CycleNext == CycleUpdate

SpecCycle == CycleInit /\ [][CycleNext]_vars

----------------------------------------------------------------------------
(* SpecTemperature: a Temperature block polled and clicked any number of times *)

\* -101, 18, 61 and 150.5 degrees
PollValues == {-202, 36, 122, 301}

PollOutputs ==
    {LaunchFailed, Malformed} \cup ValueOutputs(MaxPollReadings, PollValues)
        \cup StructureOutputs(1)

PollConfigs ==
    TemperatureConfigs(BOOLEAN, {default_format, "{min} {avg}", "{average"}, {None},
                       {None, Some(<<"Core 0">>)}, {DefaultThresholds})
        \cup TemperatureConfigs({TRUE}, {default_format}, {Some("coretemp-isa-0000")},
                                {None}, {DefaultThresholds})

PollInit ==
    /\ sensors = Unfixed
    /\ \E tc \in PollConfigs : Start(tc, "id-a", NoBlock, "")

PollUpdate == \E out \in PollOutputs : TemperatureUpdate(out)

PollClick == \E e \in Events : TemperatureClick(e)

PollNext == PollUpdate \/ PollClick

SpecTemperature == PollInit /\ [][PollNext]_vars

----------------------------------------------------------------------------
(* SpecTime: a Time block updated and clicked any number of times *)

ClockConfigs ==
    TimeConfigs({time_default_format, "%R"}, {None, Some("xdg-open cal")},
                {None, Some("Asia/Tokyo")}, {None, Some("de_DE"), Some("xx_XX")})

ClockInit ==
    /\ sensors = Unfixed
    /\ \E mc \in ClockConfigs, id \in Ids : Start(NoBlock, "", mc, id)

ClockUpdate == TimeUpdate

ClockClick == \E e \in Events, launched \in BOOLEAN : TimeClick(e, launched)

ClockNext == ClockUpdate \/ ClockClick \/ Tick \/ ChildExit

SpecTime == ClockInit /\ [][ClockNext]_vars

----------------------------------------------------------------------------
(* Spec: a bar with one Temperature block and one Time block *)

BarOutputs == {LaunchFailed, Malformed} \cup ValueOutputs(1, {36, 122, 302})

Init ==
    /\ sensors = Unfixed
    /\ \E tc \in TemperatureConfigs(BOOLEAN, {default_format}, {None}, {None},
                                    {DefaultThresholds}),
          mc \in TimeConfigs({time_default_format}, {None, Some("xdg-open cal")}, {None},
                             {None, Some("xx_XX")}),
          tid \in Ids, mid \in Ids :
            tid # mid /\ Start(tc, tid, mc, mid)

UpdateTemperature == \E out \in BarOutputs : TemperatureUpdate(out)

ClickTemperature == \E e \in Events : TemperatureClick(e)

UpdateTime == TimeUpdate

ClickTime == \E e \in Events, launched \in BOOLEAN : TimeClick(e, launched)

Next ==
    UpdateTemperature \/ ClickTemperature \/ UpdateTime \/ ClickTime \/ Tick \/ ChildExit

Spec == Init /\ [][Next]_vars

----------------------------------------------------------------------------
(* What the claims speak of, stated apart from the operators above *)

\* the whole degrees of a raw value: its fraction dropped, toward zero
Truncated(raw) ==
    CHOOSE t \in ((raw \div 2) - 1)..((raw \div 2) + 1) :
        IF raw >= 0 THEN 2 * t <= raw /\ raw < 2 * t + 2
        ELSE 2 * t - 2 < raw /\ raw <= 2 * t

\* strictly inside (-101, 151)
Valid(raw) == 2 * (-101) < raw /\ raw < 2 * 151

IsTempInput(name) == \E k \in 1..Len(TempInputNames) : name = TempInputNames[k]

Whitelisted(name) ==
    temperature.inputs.some =>
        \E k \in 1..Len(temperature.inputs.v) : temperature.inputs.v[k] = name

\* the numeric temp*input sub-fields of the whitelisted object inputs of the
\* reply that satisfy keep, each with the place it stands at
FieldsOf(out, keep(_)) ==
    UNION {UNION {{[chip |-> c.chip, input |-> i.name, name |-> f.name, raw |-> f.val.raw]
                      : f \in {g \in i.value.fields : g.val.num /\ IsTempInput(g.name)}}
                    : i \in {j \in c.inputs : Whitelisted(j.name) /\ j.value.isMap /\ keep(j)}}
             : c \in out.chips}

AllNumeric(input) == \A f \in input.value.fields : f.val.num

\* the considered fields: those of the inputs read as sub-field -> number
Considered == FieldsOf(sensors, AllNumeric)

\* the considered fields whose value is in range
ValidFields == {p \in Considered : Valid(p.raw)}

RECURSIVE SumOver(_)
SumOver(fields) ==
    IF fields = {} THEN 0
    ELSE LET p == CHOOSE x \in fields : TRUE
         IN  Truncated(p.raw) + SumOver(fields \ {p})

Abs(x) == IF x >= 0 THEN x ELSE -x

\* sum / n to the nearest integer, a half going away from zero
Rounded(sum, n) ==
    CHOOSE a \in -101..151 :
        \/ 2 * Abs(sum - a * n) < n
        \/ 2 * Abs(sum - a * n) = n /\ Abs(a) * n > Abs(sum)

\* the text of the templates the configurations use
Text(self, min, average, max) ==
    IF self.format = FromString(default_format).tokens
    THEN ToString(average) \o "^ avg, " \o ToString(max) \o "^ max"
    ELSE ToString(min) \o " " \o ToString(average) \o " " \o ToString(max)

\* how often x is among the collected readings
Count(x) == Cardinality({k \in 1..Len(temperatures) : temperatures[k] = x})

Updated == ret.blk = "temperature" /\ ret.op = "update"

\* C1: after a cycle on a well-formed reply, the collected readings are the
\* truncated in-range considered values and nothing else, the cycle returns
\* the configured interval, and the stored output is the text of the min, max
\* and average of the in-range values alone (the output is untouched when
\* there is none).
C1_InRangeCollected ==
    (Updated /\ sensors.kind = "json") =>
        /\ ret = OkSome("temperature", "update", temperature.update_interval)
        /\ Len(temperatures) = Cardinality(ValidFields)
        /\ \A q \in ValidFields :
              Count(Truncated(q.raw)) =
                  Cardinality({p \in ValidFields : Truncated(p.raw) = Truncated(q.raw)})
        /\ temperature.output =
              IF ValidFields = {} THEN ""
              ELSE LET ts == {Truncated(p.raw) : p \in ValidFields}
                   IN  Text(temperature,
                            CHOOSE x \in ts : \A y \in ts : x <= y,
                            Rounded(SumOver(ValidFields), Cardinality(ValidFields)),
                            CHOOSE x \in ts : \A y \in ts : x >= y)

\* a cycle has read an out-of-range value beside an in-range one and rendered
C1_Witness ==
    /\ Updated
    /\ sensors.kind = "json"
    /\ \E p, q \in Considered : ~Valid(p.raw) /\ Valid(q.raw)
    /\ temperature.output # ""

\* the sensor inputs one of whose sub-fields is no number
BadInputs ==
    UNION {{i \in c.inputs : i.value.isMap /\ ~AllNumeric(i)} : c \in sensors.chips}

AnyInput(input) == TRUE

\* the field stands in an input one of whose sub-fields is no number
InBadInput(p) ==
    \E c \in sensors.chips : c.chip = p.chip /\
        \E i \in c.inputs : i.name = p.input /\ ~AllNumeric(i)

\* C7, as claimed: a sub-field that is no number is dropped alone, so every
\* in-range numeric temp*input sub-field of every whitelisted object input is
\* collected, those beside a non-numeric sub-field included.
C7_Original ==
    (Updated /\ sensors.kind = "json") =>
        /\ ret.kind = "Some"
        /\ Len(temperatures) =
              Cardinality({p \in FieldsOf(sensors, AnyInput) : Valid(p.raw)})

\* C7, amended: a sensor input with a sub-field that is no number is dropped
\* as a whole; the cycle does not fail, none of that input's sub-fields is
\* collected, and the in-range temp*input readings of all other inputs are.
C7_BadInputDropped ==
    (Updated /\ sensors.kind = "json" /\ BadInputs # {}) =>
        /\ ret = OkSome("temperature", "update", temperature.update_interval)
        /\ Len(temperatures) =
              Cardinality({p \in FieldsOf(sensors, AnyInput) : Valid(p.raw) /\ ~InBadInput(p)})

\* a cycle has met an input with a non-numeric sub-field beside an in-range
\* temp*input one, and has collected the reading of another input
C7_Witness ==
    /\ Updated
    /\ sensors.kind = "json"
    /\ \E i \in BadInputs : Whitelisted(i.name) /\
          \E f \in i.value.fields : f.val.num /\ IsTempInput(f.name) /\ Valid(f.val.raw)
    /\ temperatures # <<>>

\* the ladder on the thresholds, which the configurations keep ascending
Ladder(self, m) ==
    CASE m <= self.maximum_good -> "Good"
      [] self.maximum_good < m /\ m <= self.maximum_idle -> "Idle"
      [] self.maximum_idle < m /\ m <= self.maximum_info -> "Info"
      [] self.maximum_info < m /\ m <= self.maximum_warning -> "Warning"
      [] self.maximum_warning < m -> "Critical"

\* temperatures holds exactly the readings of the bag, in some order
Collected(bag) ==
    /\ Len(temperatures) = Len(bag)
    /\ \A k \in 1..Len(bag) :
          Count(bag[k]) = Cardinality({j \in 1..Len(bag) : bag[j] = bag[k]})

\* C10: after a cycle that collected a nonempty R and rendered it, the output
\* is the template's text of min = the least of R, max = the greatest of R and
\* average = sum(R)/|R| to the nearest integer (halves away from zero), and the
\* severity is the ladder's state of max; R = {18, 42, 61} gives 18, 40, 61
\* and Warning.
C10_Aggregate ==
    (Updated /\ temperatures # <<>>) =>
        LET R == {temperatures[k] : k \in 1..Len(temperatures)}
            least == CHOOSE x \in R : \A y \in R : x <= y
            greatest == CHOOSE x \in R : \A y \in R : x >= y
        IN  /\ ret.kind = "Some"
            /\ temperature.output =
                  Text(temperature, least, Rounded(Sum(temperatures), Len(temperatures)),
                       greatest)
            /\ temperature.text.state = Ladder(temperature, greatest)
            /\ Collected(<<18, 42, 61>>) =>
                  /\ temperature.output \in {"18 40 61", "40^ avg, 61^ max"}
                  /\ temperature.text.state = "Warning"

\* a cycle has collected 18, 42 and 61 and shows 18, 40, 61 as Warning
C10_Witness ==
    /\ Updated
    /\ Collected(<<18, 42, 61>>)
    /\ temperature.output = "18 40 61"
    /\ temperature.text.text = "18 40 61"
    /\ temperature.text.state = "Warning"

----------------------------------------------------------------------------
(* Claims on a block polled and clicked many times *)

\* C2: a cycle whose reply parses and yields no valid reading leaves the whole
\* block (text, severity, spacing, output, collapsed) as it was and returns
\* the configured interval.
C2_ZeroReadingsKeep ==
    [][(/\ ret'.blk = "temperature" /\ ret'.op = "update"
        /\ ret'.msg # "sensors output is invalid"
        /\ temperatures' = <<>>)
          => /\ temperature' = temperature
             /\ ret' = OkSome("temperature", "update", temperature.update_interval)]_vars

\* an expanded block showing an earlier aggregate has been through a cycle
\* without a valid reading
C2_Witness ==
    /\ Updated
    /\ ret.kind = "Some"
    /\ temperatures = <<>>
    /\ ~temperature.collapsed
    /\ temperature.output # ""
    /\ temperature.text.text = temperature.output

\* C3: after two matching left clicks with no update between them the block is
\* what it was before the first of them, and the second ran no command.
C3_DoubleToggle ==
    Len(clickHist) = 2 => temperature = clickHist[1] /\ spawned = <<>>

\* a block showing an aggregate has been clicked twice
C3_Witness ==
    /\ Len(clickHist) = 2
    /\ ~temperature.collapsed
    /\ temperature.text.text # ""

\* C8: a cycle that returns an error (reply not well-formed, command not
\* launched, template not renderable) leaves the whole block as it was.
C8_ErrorKeeps ==
    [][(ret'.blk = "temperature" /\ ret'.op = "update" /\ ret'.kind = "Err")
          => temperature' = temperature /\ ret'.interval = 0]_vars

\* a block holding an earlier aggregate has been through a failed cycle
C8_Witness ==
    /\ Updated
    /\ ret.kind = "Err"
    /\ ~temperature.collapsed
    /\ temperature.text.text # ""
    /\ temperature.text.text = temperature.output

\* the text of the aggregate of the last cycle that rendered one
LastRendered ==
    IF lastGood = <<>> THEN ""
    ELSE Text(temperature, Min(lastGood), Rounded(Sum(lastGood), Len(lastGood)),
              Max(lastGood))

\* the last operation was a click that expanded the block
Expanded ==
    /\ ret.blk = "temperature" /\ ret.op = "click"
    /\ clickHist # <<>>
    /\ clickHist[Len(clickHist)].collapsed
    /\ ~temperature.collapsed

\* C9: right after an expanding click the text is that of the last cycle that
\* rendered an aggregate (empty before the first) and the spacing is Normal;
\* while collapsed the text is empty and the spacing Hidden; the stored output
\* is that of the last rendering cycle whatever the collapsed flag was.
C9_ExpandShowsLast ==
    temperature.live =>
        /\ Expanded =>
              temperature.text.text = LastRendered /\ temperature.text.spacing = "Normal"
        /\ temperature.collapsed =>
              temperature.text.text = "" /\ temperature.text.spacing = "Hidden"
        /\ temperature.output = LastRendered

\* a block that rendered an aggregate while collapsed has been expanded by the
\* one click since
C9_Witness ==
    /\ Expanded
    /\ Len(clickHist) = 1
    /\ temperatures # <<>>
    /\ temperatures = lastGood
    /\ clickHist[1].text.text = ""
    /\ temperature.text.text = LastRendered
    /\ temperature.text.text # ""

----------------------------------------------------------------------------
(* Claims on the bar *)

\* the event is not a left click on the block
NotForBlock(self, e) == ~e.name.some \/ e.name.v # self.id \/ e.button # "Left"

\* C4: a click of either block on an event that has no name, another name or
\* another button than Left returns Ok, changes no field of either block and
\* launches nothing.
C4_OtherClicksNoOp ==
    [][\A e \in Events :
          /\ (NotForBlock(temperature, e) /\ TemperatureClick(e))
                => /\ temperature' = temperature /\ time' = time
                   /\ ret' = OkUnit("temperature", "click") /\ spawned' = <<>>
          /\ (NotForBlock(time, e) /\ \E launched \in BOOLEAN : TimeClick(e, launched))
                => /\ temperature' = temperature /\ time' = time
                   /\ ret' = OkUnit("time", "click") /\ spawned' = <<>>]_vars

\* a Time block with a command to launch has been clicked and launched nothing
C4_Witness ==
    /\ ret = OkUnit("time", "click")
    /\ time.on_click.some
    /\ spawned = <<>>
    /\ time.time.text # ""
    /\ temperature.output # ""

----------------------------------------------------------------------------
(* Claims on the Time block *)

\* C5, as claimed: a Time block with an invalid locale never becomes live, so
\* no update of a live Time block fails for an invalid locale.
C5_Original ==
    ~(time.live /\ ret = Err("time", "update", "invalid locale"))

\* C6, as claimed: every update of a live Time block sets the text and returns
\* the configured interval.
C6_Original ==
    (ret.blk = "time" /\ ret.op = "update") =>
        /\ ret = OkSome("time", "update", time.update_interval)
        /\ time.time.text # ""

----------------------------------------------------------------------------
(* SpecLadder: a Temperature block of any thresholds, polled any number of    *)
(* times with readings on and beside the thresholds                          *)

\* 20, 21, 45, 60, 80 and 81 degrees
LadderValues == {40, 42, 90, 120, 160, 162}

\* the thresholds as configured by default, descending, and out of order
LadderThresholds ==
    {DefaultThresholds,
     <<default_warning, default_info, default_idle, default_good>>,
     <<default_good, default_warning, default_idle, default_info>>}

LadderConfigs ==
    TemperatureConfigs(BOOLEAN, {"{max}"}, {None}, {None}, LadderThresholds)

LadderInit ==
    /\ sensors = Unfixed
    /\ \E tc \in LadderConfigs : Start(tc, "id-a", NoBlock, "")

LadderUpdate ==
    \E out \in ValueOutputs(MaxPollReadings, LadderValues) : TemperatureUpdate(out)

LadderNext == LadderUpdate

SpecLadder == LadderInit /\ [][LadderNext]_vars

\* the state of the first threshold, in the order good, idle, info, warning,
\* that m does not exceed; Critical when m exceeds them all
FirstMatch(thresholds, m) ==
    LET hits == {i \in 1..4 : m <= thresholds[i]}
    IN  IF hits = {} THEN "Critical"
        ELSE <<"Good", "Idle", "Info", "Warning">>[CHOOSE i \in hits : \A j \in hits : i <= j]

Thresholds(self) ==
    <<self.maximum_good, self.maximum_idle, self.maximum_info, self.maximum_warning>>

Ascending(thresholds) == \A i \in 1..3 : thresholds[i] <= thresholds[i + 1]

\* the greatest of the collected readings
Greatest ==
    CHOOSE x \in {temperatures[k] : k \in 1..Len(temperatures)} :
        \A k \in 1..Len(temperatures) : x >= temperatures[k]

\* C11: after a cycle that collected a reading and rendered, the severity is
\* the first match of the ladder good, idle, info, warning on the greatest
\* reading m (Critical when none matches), be the thresholds ascending or not
\* and the block collapsed or not; m equal to a threshold takes that
\* threshold's state unless an earlier one matched.
C11_LadderOnMax ==
    (Updated /\ ret.kind = "Some" /\ temperatures # <<>>) =>
        LET th == Thresholds(temperature)
            m == Greatest
        IN  /\ temperature.text.state = FirstMatch(th, m)
            /\ m = th[1] => temperature.text.state = "Good"
            /\ (m = th[2] /\ m > th[1]) => temperature.text.state = "Idle"
            /\ (m = th[3] /\ m > th[1] /\ m > th[2]) => temperature.text.state = "Info"
            /\ (m = th[4] /\ m > th[1] /\ m > th[2] /\ m > th[3])
                  => temperature.text.state = "Warning"
            /\ (m > th[1] /\ m > th[2] /\ m > th[3] /\ m > th[4])
                  => temperature.text.state = "Critical"

\* a collapsed block whose thresholds are out of order has collected a
\* greatest reading equal to its idle threshold and above its info threshold
C11_Witness ==
    /\ Updated
    /\ ret.kind = "Some"
    /\ temperatures # <<>>
    /\ temperature.collapsed
    /\ ~Ascending(Thresholds(temperature))
    /\ Greatest = temperature.maximum_idle
    /\ Greatest > temperature.maximum_info
    /\ temperature.text.state = "Idle"
    /\ temperature.text.text = ""
    /\ temperature.output # ""

----------------------------------------------------------------------------
(* SpecBar: a bar of two Temperature blocks and a Time block, which polls    *)
(* its blocks and hands every click event to each of them in turn           *)

\* the identities the blocks get, in registration order: pairwise distinct
BarIds == <<"id-a", "id-b", "id-c">>

BarEvents ==
    [name : {None} \cup {Some(n) : n \in {"id-a", "id-b", "id-c", "id-gone"}},
     button : MouseButtons]

\* a registered block (a Box<dyn Block>): its kind and its fields
Registered(kind, block) == [kind |-> kind, block |-> block]

\* Block::id of a registered block
IdOf(entry) == entry.block.id

\* Block::click of a registered block: the block after it, what it returned
\* and what it launched
Click(entry, e, launched) ==
    IF entry.kind = "temperature"
    THEN [entry |-> [entry EXCEPT !.block = IF Matches(@, e) THEN Toggled(@) ELSE @],
          ret |-> OkUnit("temperature", "click"),
          spawned |-> <<>>]
    ELSE LET cmd == ClickCommand(entry.block, e)
         IN  [entry |-> entry,
              ret |-> IF cmd # <<>> /\ ~launched
                      THEN Err("time", "click", "could not spawn child")
                      ELSE OkUnit("time", "click"),
              spawned |-> cmd]

RECURSIVE Commands(_, _)
\* the commands of the clicks r[i], r[i + 1], ...
Commands(r, i) ==
    IF i > Len(r) THEN <<>> ELSE r[i].spawned \o Commands(r, i + 1)

\* the bar hands the event to every block, in registration order
Deliver(e, launched) ==
    /\ blocks # <<>>
    /\ launched => CanLaunch
    /\ LET r == [i \in 1..Len(blocks) |-> Click(blocks[i], e, launched)]
       IN  /\ blocks' = [i \in 1..Len(blocks) |-> r[i].entry]
           /\ delivery' = [live |-> TRUE, event |-> e, before |-> blocks,
                           returned |-> [i \in 1..Len(blocks) |-> r[i].ret]]
           /\ spawned' = Commands(r, 1)
           /\ children' = IF launched THEN children \o spawned' ELSE children
    /\ ret' = OkUnit("bar", "deliver")
    /\ UNCHANGED <<temperature, time, sensors, now, temperatures, clickHist, lastGood>>

\* Block::update of the i-th registered block, the sensors command printing
\* `out` if it is run
UpdateRegistered(i, out) ==
    /\ i \in 1..Len(blocks)
    /\ delivery' = NoDelivery
    /\ UNCHANGED <<temperature, time, sensors, now, temperatures, clickHist, lastGood,
                   children>>
    /\ LET self == blocks[i].block
       IN  IF blocks[i].kind = "temperature"
           THEN /\ spawned' = <<SensorsCommand(self)>>
                /\ IF out.kind # "json"
                   THEN /\ ret' = Err("temperature", "update", "sensors output is invalid")
                        /\ UNCHANGED blocks
                   ELSE LET after == Aggregate(self, CollectChips(out.chips, self.inputs))
                        IN  /\ blocks' = [blocks EXCEPT ![i].block = after.block]
                            /\ ret' = IF after.ok
                                      THEN OkSome("temperature", "update", self.update_interval)
                                      ELSE Err("temperature", "update", "render")
           ELSE /\ spawned' = <<>>
                /\ IF self.locale.some /\ ~TryIntoLocale(self.locale.v).ok
                   THEN /\ ret' = Err("time", "update", "invalid locale")
                        /\ UNCHANGED blocks
                   ELSE /\ blocks' = [blocks EXCEPT ![i].block.time =
                                          SetText(@, FormatNow(self, now, self.locale))]
                        /\ ret' = OkSome("time", "update", self.update_interval)

BarTemperatureConfig(collapsed) ==
    CHOOSE tc \in TemperatureConfigs({collapsed}, {default_format}, {None}, {None},
                                     {DefaultThresholds}) : TRUE

BarTimeConfig(on_click) ==
    CHOOSE mc \in TimeConfigs({time_default_format}, {on_click}, {None}, {None}) : TRUE

\* the Time block is registered first, between the Temperature blocks or last
\* (collapsed[at], the flag of the place the Time block takes, is not used)
BarInit ==
    /\ temperature = NoBlock
    /\ time = NoBlock
    /\ sensors = Unfixed
    /\ now = 0
    /\ ret = Started
    /\ spawned = <<>>
    /\ temperatures = <<>>
    /\ clickHist = <<>>
    /\ lastGood = <<>>
    /\ delivery = NoDelivery
    /\ children = <<>>
    /\ \E collapsed \in [1..3 -> BOOLEAN], on_click \in {None, Some("xdg-open cal")},
          at \in 1..3 :
            /\ collapsed[at] = FALSE
            /\ blocks =
                  [i \in 1..3 |->
                      IF i = at
                      THEN Registered("time", TimeNew(BarTimeConfig(on_click), BarIds[i]).block)
                      ELSE Registered("temperature",
                                      TemperatureNew(BarTemperatureConfig(collapsed[i]),
                                                     BarIds[i]).block)]

BarUpdate == \E i \in 1..Len(blocks), out \in BarOutputs : UpdateRegistered(i, out)

BarDeliver == \E e \in BarEvents, launched \in BOOLEAN : Deliver(e, launched)

BarNext == BarUpdate \/ BarDeliver \/ ChildExit

SpecBar == BarInit /\ [][BarNext]_vars

\* the blocks of the bar have pairwise distinct identities
DistinctIds ==
    \A i, j \in 1..Len(blocks) : i # j => IdOf(blocks[i]) # IdOf(blocks[j])

\* the blocks the last delivery changed
Changed == {i \in 1..Len(blocks) : blocks[i] # delivery.before[i]}

\* the event of the last delivery names block i
Targets(i) == delivery.event.name.some /\ delivery.event.name.v = IdOf(delivery.before[i])

\* C12: with pairwise distinct identities, one click event handed to every
\* block of the bar changes at most one block, that block being the one the
\* event names; every block the event does not name returns Ok and is as it
\* was before.
C12_AtMostOneChanged ==
    (delivery.live /\ DistinctIds) =>
        /\ Cardinality(Changed) <= 1
        /\ \A i \in Changed : Targets(i)
        /\ \A i \in 1..Len(blocks) :
              ~Targets(i) =>
                  /\ blocks[i] = delivery.before[i]
                  /\ delivery.returned[i].kind = "Ok"

\* a left click naming one of two Temperature blocks that both show an
\* aggregate has collapsed that one and left the other and the Time block
C12_Witness ==
    /\ delivery.live
    /\ Cardinality(Changed) = 1
    /\ \E i, j \in 1..Len(blocks) :
          /\ i # j
          /\ blocks[i].kind = "temperature" /\ blocks[j].kind = "temperature"
          /\ ~delivery.before[i].block.collapsed /\ delivery.before[i].block.output # ""
          /\ blocks[i].block.collapsed
          /\ ~blocks[j].block.collapsed /\ blocks[j].block.text.text # ""
    /\ \A i \in 1..Len(blocks) : delivery.returned[i].kind = "Ok"

----------------------------------------------------------------------------
(* Claims on the clicks of the Time block *)

\* the event is a left click on the block and the block has a command
Wanted(self, e) == e.name = Some(self.id) /\ e.button = "Left" /\ self.on_click.some

\* C13: a click of the Time block runs `sh -c on_click` once when the event
\* names the block, the button is Left and a command is configured, and runs
\* nothing otherwise; it returns while the launched command (and those
\* launched before) still run; it changes no field of the block; a launch that
\* fails returns the error and leaves the block as it was, live for later
\* updates and clicks.
C13_ClickLaunches ==
    [][\A e \in Events, launched \in BOOLEAN :
          TimeClick(e, launched) =>
              LET command == <<"sh", "-c", time.on_click.v>>
              IN  /\ time' = time
                  /\ time'.live
                  /\ spawned' = IF Wanted(time, e) THEN <<command>> ELSE <<>>
                  /\ children' = IF Wanted(time, e) /\ launched
                                 THEN Append(children, command)
                                 ELSE children
                  /\ ret' = IF Wanted(time, e) /\ ~launched
                            THEN Err("time", "click", "could not spawn child")
                            ELSE OkUnit("time", "click")]_vars

\* a Time block showing the time has failed to launch its command while an
\* earlier launched command still runs
C13_Witness ==
    /\ ret = Err("time", "click", "could not spawn child")
    /\ spawned = <<<<"sh", "-c", time.on_click.v>>>>
    /\ children # <<>>
    /\ time.live
    /\ time.time.text # ""

----------------------------------------------------------------------------
(* Claims on the identities of the blocks of the bar *)

\* C14: no update and no click, failed or not, changes the identity of a
\* Temperature or Time block, and the identity id() returns is at all times
\* the one its widget was built with.
C14_IdentityKept ==
    [][/\ temperature.live =>
             /\ temperature.text.id = temperature.id
             /\ temperature'.live
             /\ temperature'.id = temperature.id
             /\ temperature'.text.id = temperature.id
       /\ time.live =>
             /\ time.time.id = time.id
             /\ time'.live
             /\ time'.id = time.id
             /\ time'.time.id = time.id]_vars

\* both blocks have been updated, the Temperature block has been clicked, and
\* a click of the Time block has just failed to launch its command
C14_Witness ==
    /\ ret = Err("time", "click", "could not spawn child")
    /\ temperature.output # ""
    /\ clickHist # <<>>
    /\ time.time.text # ""
    /\ temperature.text.id = temperature.id
    /\ time.time.id = time.id
    /\ temperature.id # time.id

----------------------------------------------------------------------------
(* Claims on what one cycle collects *)

\* every sub-field of every sensor input of every chip of the reply, with the
\* place it stands at and whether its input reads as sub-field -> number
Places ==
    UNION {UNION {{[chip |-> c.chip, input |-> i.name, name |-> f.name, val |-> f.val,
                    mapping |-> \A g \in i.value.fields : g.val.num]
                      : f \in i.value.fields}
                    : i \in {j \in c.inputs : j.value.isMap}}
             : c \in sensors.chips}

\* the four conditions on a sub-field
Contributing(p) ==
    /\ ~temperature.inputs.some \/ Contains(temperature.inputs.v, p.input)
    /\ p.mapping
    /\ StartsWith(p.name, "temp") /\ EndsWith(p.name, "input")
    /\ p.val.num /\ -101 * 2 < p.val.raw /\ p.val.raw < 151 * 2

\* C15: the readings a cycle collects are, chip by chip and all in one vector,
\* the values of exactly the sub-fields that meet all four conditions: input
\* on the whitelist (or no whitelist), input readable as sub-field -> number,
\* name starting with "temp" and ending with "input", value strictly inside
\* (-101, 151).
C15_Contributes ==
    (Updated /\ sensors.kind = "json") =>
        LET C == {p \in Places : Contributing(p)}
        IN  /\ Len(temperatures) = Cardinality(C)
            /\ \A p \in C :
                  Count(Truncated(p.val.raw)) =
                      Cardinality({q \in C : Truncated(q.val.raw) = Truncated(p.val.raw)})
            /\ (C = {}) = (temperatures = <<>>)

\* under a whitelist a cycle has pooled the readings of two chips and left out
\* a sub-field whose name has the prefix without the suffix
C15_Witness ==
    /\ Updated
    /\ sensors.kind = "json"
    /\ temperature.inputs.some
    /\ \E p, q \in Places : Contributing(p) /\ Contributing(q) /\ p.chip # q.chip
    /\ \E p \in Places : ~Contributing(p) /\ p.mapping /\ p.name = "temp1_max"
    /\ Len(temperatures) = 2

----------------------------------------------------------------------------
(* Claims on every state of a Temperature block *)

\* C16: from construction on, through updates that render, collect nothing or
\* fail and through clicks, a collapsed block has an empty text and Hidden
\* spacing, and an expanded block has the stored output as text and Normal
\* spacing.
C16_CollapsedHidesText ==
    temperature.live =>
        IF temperature.collapsed
        THEN temperature.text.text = "" /\ temperature.text.spacing = "Hidden"
        ELSE temperature.text.text = temperature.output
                /\ temperature.text.spacing = "Normal"

\* a block showing an aggregate has just been collapsed by a click and keeps
\* the output it no longer shows
C16_Witness ==
    /\ ret = OkUnit("temperature", "click")
    /\ clickHist # <<>>
    /\ ~clickHist[Len(clickHist)].collapsed
    /\ clickHist[Len(clickHist)].text.text # ""
    /\ temperature.collapsed
    /\ temperature.output # ""
    /\ temperature.text.text = ""
    /\ temperature.text.spacing = "Hidden"

\* what a block is configured with
Configured(self) ==
    <<self.update_interval, self.maximum_good, self.maximum_idle, self.maximum_info,
      self.maximum_warning, self.format, self.chip, self.inputs>>

\* C17: an update leaves the collapsed flag and the spacing as they were, a
\* click leaves the stored output and the severity as they were, and both
\* leave the interval, the thresholds, the template, the chip filter and the
\* input whitelist as they were.
C17_Frame ==
    [][/\ PollUpdate =>
             /\ temperature'.collapsed = temperature.collapsed
             /\ temperature'.text.spacing = temperature.text.spacing
             /\ Configured(temperature') = Configured(temperature)
       /\ PollClick =>
             /\ temperature'.output = temperature.output
             /\ temperature'.text.state = temperature.text.state
             /\ Configured(temperature') = Configured(temperature)]_vars

\* a block whose last update rendered a Critical aggregate has been expanded
\* by a click and still is Critical
C17_Witness ==
    /\ ret = OkUnit("temperature", "click")
    /\ clickHist # <<>>
    /\ clickHist[Len(clickHist)].collapsed
    /\ clickHist[Len(clickHist)].text.state = "Critical"
    /\ ~temperature.collapsed
    /\ temperature.text.state = "Critical"
    /\ temperature.output = clickHist[Len(clickHist)].output
    /\ temperature.text.text = temperature.output
    /\ temperature.output # ""

----------------------------------------------------------------------------
(* Claims on the numbers of one cycle *)

\* C18: every reading a cycle collects lies in [-100, 150], a value between
\* -101 and -100 being collected as -100 and one between 150 and 151 as 150;
\* so the min, max and average of an aggregate lie in [-100, 150] with
\* min <= average <= max.
C18_Range ==
    Updated =>
        /\ \A k \in 1..Len(temperatures) : -100 <= temperatures[k] /\ temperatures[k] <= 150
        /\ \A p \in Considered :
              /\ (-101 * 2 < p.raw /\ p.raw < -100 * 2) => Count(-100) >= 1
              /\ (150 * 2 < p.raw /\ p.raw < 151 * 2) => Count(150) >= 1
        /\ temperatures # <<>> =>
              LET values == Values(temperatures)
              IN  /\ \A k \in DOMAIN values : -100 <= values[k] /\ values[k] <= 150
                  /\ values["{min}"] <= values["{average}"]
                  /\ values["{average}"] <= values["{max}"]

\* a cycle has read -100.5 and 150.5 degrees, collected them as -100 and 150
\* and rendered an average strictly between them
C18_Witness ==
    /\ Updated
    /\ ret.kind = "Some"
    /\ \E p, q \in Considered : p.raw = -201 /\ q.raw = 301
    /\ Count(-100) >= 1
    /\ Count(150) >= 1
    /\ Values(temperatures)["{min}"] < Values(temperatures)["{average}"]
    /\ Values(temperatures)["{average}"] < Values(temperatures)["{max}"]
    /\ temperature.output # ""

====
